---- MODULE Spec2Model ----
(***************************************************************************)
(* Chapter detection and segmentation planning of the audiobook chapter    *)
(* splitter (src/run.py).                                                  *)
(*                                                                         *)
(* Strings are sequences of one-character strings.  Times in seconds are   *)
(* exact rationals counted in ticks (TicksPerMs ticks to the millisecond), *)
(* so that int(seconds * 1000) really truncates.  Binary floating-point    *)
(* rounding is not modelled.                                               *)
(***************************************************************************)
EXTENDS Integers, Sequences, FiniteSets, TLC

\* ------------------------------------------------------------------ bounds
\* Longest transcript (in cues) the scanner is run on.
MaxCues == 3
\* Longest chapter list the planner is run on.
MaxChapters == 3
\* Largest chapter number in a planner input.
MaxNumber == 5
\* Largest value whose standard Roman spelling is parsed.
MaxRoman == 3999
\* Number of recordings in the input directory.
NumRecordings == 2

\* Resolution of the model's clock: ticks per millisecond.
TicksPerMs == 2

\* Longest title source text, in sentence fragments.
MaxFragments == 3

\* --------------------------------------------------------------- characters
UpperChars == <<"A","B","C","D","E","F","G","H","I","J","K","L","M",
                "N","O","P","Q","R","S","T","U","V","W","X","Y","Z">>
LowerChars == <<"a","b","c","d","e","f","g","h","i","j","k","l","m",
                "n","o","p","q","r","s","t","u","v","w","x","y","z">>
DigitChars == <<"0","1","2","3","4","5","6","7","8","9">>

Range(f) == {f[k] : k \in DOMAIN f}
Max(a, b) == IF a >= b THEN a ELSE b

\* Index of c in the tuple t, 0 when absent.
IndexOf(c, t) == IF \E k \in DOMAIN t : t[k] = c
                 THEN CHOOSE k \in DOMAIN t : t[k] = c
                 ELSE 0

\* str.lower() and str.upper(), character by character.
LowerChar(c) == IF IndexOf(c, UpperChars) > 0 THEN LowerChars[IndexOf(c, UpperChars)] ELSE c
UpperChar(c) == IF IndexOf(c, LowerChars) > 0 THEN UpperChars[IndexOf(c, LowerChars)] ELSE c
Lower(s) == [k \in 1..Len(s) |-> LowerChar(s[k])]
Upper(s) == [k \in 1..Len(s) |-> UpperChar(s[k])]

\* str.isalpha() of a one-character string.
IsAlpha(c) == IndexOf(c, UpperChars) > 0 \/ IndexOf(c, LowerChars) > 0

WhiteSpace == {" "}
\* The characters strip('.,?!') removes, and the ones rstrip('.?!') removes.
MarkerPunct == {".", ",", "?", "!"}
SentenceEnd == {".", "?", "!"}

RECURSIVE LStrip(_, _)
LStrip(s, cs) == IF s # <<>> /\ Head(s) \in cs THEN LStrip(Tail(s), cs) ELSE s

RECURSIVE RStrip(_, _)
RStrip(s, cs) == IF s # <<>> /\ s[Len(s)] \in cs
                 THEN RStrip(SubSeq(s, 1, Len(s) - 1), cs)
                 ELSE s

\* str.strip(chars)
Strip(s, cs) == RStrip(LStrip(s, cs), cs)

\* str.split(): the maximal runs of non-whitespace characters.
RECURSIVE SplitFrom(_, _, _, _)
SplitFrom(s, k, cur, acc) ==
  IF k > Len(s) THEN (IF cur = <<>> THEN acc ELSE Append(acc, cur))
  ELSE IF s[k] \in WhiteSpace
       THEN SplitFrom(s, k + 1, <<>>, IF cur = <<>> THEN acc ELSE Append(acc, cur))
       ELSE SplitFrom(s, k + 1, Append(cur, s[k]), acc)
Split(s) == SplitFrom(s, 1, <<>>, <<>>)

\* sep.join(parts)
RECURSIVE Join(_, _)
Join(parts, sep) ==
  IF parts = <<>> THEN <<>>
  ELSE IF Len(parts) = 1 THEN parts[1]
  ELSE parts[1] \o sep \o Join(Tail(parts), sep)

\* str.split(sep) for a one-character separator: empty fields are kept.
RECURSIVE SplitOnFrom(_, _, _, _, _)
SplitOnFrom(s, sep, k, cur, acc) ==
  IF k > Len(s) THEN Append(acc, cur)
  ELSE IF s[k] = sep
       THEN SplitOnFrom(s, sep, k + 1, <<>>, Append(acc, cur))
       ELSE SplitOnFrom(s, sep, k + 1, Append(cur, s[k]), acc)
SplitOn(s, sep) == SplitOnFrom(s, sep, 1, <<>>, <<>>)

\* First index at which pat occurs in s, 0 when it does not (str.find + 1).
Find(s, pat) ==
  LET hits == {k \in 1..(Len(s) - Len(pat) + 1) : SubSeq(s, k, k + Len(pat) - 1) = pat}
  IN IF hits = {} THEN 0 ELSE CHOOSE k \in hits : \A j \in hits : k <= j

\* ------------------------------------------------------------------ numbers
\* An attempt to read a number: ok = FALSE stands for the exception raised.
Some(n) == [ok |-> TRUE, val |-> n]
Failed == [ok |-> FALSE, val |-> 0]

RECURSIVE DigitsValue(_)
DigitsValue(s) == IF s = <<>> THEN 0
                  ELSE 10 * DigitsValue(SubSeq(s, 1, Len(s) - 1)) + (IndexOf(s[Len(s)], DigitChars) - 1)

AllDigits(s) == s # <<>> /\ \A k \in 1..Len(s) : IndexOf(s[k], DigitChars) > 0

\* int(s): an optional sign and decimal digits; ValueError otherwise.
ParseInt(s) ==
  IF s # <<>> /\ Head(s) \in {"+", "-"}
  THEN IF AllDigits(Tail(s))
       THEN Some(IF Head(s) = "-" THEN 0 - DigitsValue(Tail(s)) ELSE DigitsValue(Tail(s)))
       ELSE Failed
  ELSE IF AllDigits(s) THEN Some(DigitsValue(s)) ELSE Failed

\* str(n) for an integer n.
RECURSIVE NatStr(_)
NatStr(n) == IF n < 10 THEN <<DigitChars[n + 1]>>
             ELSE Append(NatStr(n \div 10), DigitChars[(n % 10) + 1])
IntStr(n) == IF n < 0 THEN <<"-">> \o NatStr(0 - n) ELSE NatStr(n)

\* ----------------------------------------------------------------- run.py
\* srt_time_to_seconds: "HH:MM:SS,mmm" to seconds (here ticks).  A field that
\* is missing or no integer raises ValueError.
srt_time_to_seconds(time_str) ==
  LET hms == SplitOn(time_str, ":")
      sms == SplitOn(hms[3], ",")
      h   == ParseInt(Strip(hms[1], WhiteSpace))
      m   == ParseInt(Strip(hms[2], WhiteSpace))
      s   == ParseInt(Strip(sms[1], WhiteSpace))
      ms  == ParseInt(Strip(sms[2], WhiteSpace))
  IN IF Len(hms) # 3 THEN Failed
     ELSE IF Len(sms) # 2 THEN Failed
     ELSE IF ~(h.ok /\ m.ok /\ s.ok /\ ms.ok) THEN Failed
     ELSE Some(((h.val * 3600 + m.val * 60 + s.val) * 1000 + ms.val) * TicksPerMs)

roman_map(c) == CASE c = "I" -> 1 [] c = "V" -> 5 [] c = "X" -> 10 [] c = "L" -> 50
                  [] c = "C" -> 100 [] c = "D" -> 500 [] c = "M" -> 1000
RomanLetters == {"I", "V", "X", "L", "C", "D", "M"}

\* A parser that only adds the letters' values (no subtractive rule).
RECURSIVE RomanFrom_Additive(_, _, _)
RomanFrom_Additive(u, k, result) ==
  IF k > Len(u) THEN result
  ELSE RomanFrom_Additive(u, k + 1, result + roman_map(u[k]))

\* The loop of roman_to_int over the upper-cased string u, from index k on.
RECURSIVE RomanFrom(_, _, _)
RomanFrom(u, k, result) ==
  IF k > Len(u) THEN result
  ELSE IF k > 1 /\ roman_map(u[k]) > roman_map(u[k - 1])
       THEN RomanFrom(u, k + 1, result + roman_map(u[k]) - 2 * roman_map(u[k - 1]))
       ELSE RomanFrom(u, k + 1, result + roman_map(u[k]))

\* roman_to_int: KeyError (ok = FALSE) on a character outside roman_map.
roman_to_int(s) ==
  LET u == Upper(s)
  IN IF \E k \in 1..Len(u) : u[k] \notin RomanLetters THEN Failed
     ELSE Some(RomanFrom(u, 1, 0))

\* The single number words word_to_num of the word2number library knows (an
\* excerpt of its table); any other token raises ValueError.
american_number_system ==
    {<<<<"z","e","r","o">>, 0>>,
     <<<<"o","n","e">>, 1>>,
     <<<<"t","w","o">>, 2>>,
     <<<<"t","h","r","e","e">>, 3>>,
     <<<<"f","o","u","r">>, 4>>,
     <<<<"f","i","v","e">>, 5>>,
     <<<<"s","i","x">>, 6>>,
     <<<<"s","e","v","e","n">>, 7>>,
     <<<<"e","i","g","h","t">>, 8>>,
     <<<<"n","i","n","e">>, 9>>,
     <<<<"t","e","n">>, 10>>,
     <<<<"e","l","e","v","e","n">>, 11>>,
     <<<<"t","w","e","l","v","e">>, 12>>,
     <<<<"t","w","e","n","t","y">>, 20>>}

word_to_num(s) ==
  IF \E e \in american_number_system : e[1] = s
  THEN Some((CHOOSE e \in american_number_system : e[1] = s)[2])
  ELSE Failed

\* The numeral chain of parse_srt_for_chapters: int(), then word_to_num, then
\* roman_to_int; ok = FALSE when the last of them raises.
ResolveNumber(next_word_cleaned) ==
  IF ParseInt(next_word_cleaned).ok THEN ParseInt(next_word_cleaned)
  ELSE IF word_to_num(next_word_cleaned).ok THEN word_to_num(next_word_cleaned)
  ELSE roman_to_int(next_word_cleaned)

ABBREVIATIONS ==
    {<<"m","r">>,
     <<"m","r","s">>,
     <<"m","s">>,
     <<"d","r">>,
     <<"p","r","o","f">>,
     <<"s","t">>,
     <<"v","o","l">>,
     <<"n","o">>,
     <<"e","t","c">>,
     <<"r","e","v">>,
     <<"c","a","p","t">>}

\* re.split(r'(?<=[.?!])\s+', text): cut at every whitespace run that follows
\* a sentence-ending character; the run is dropped.
RECURSIVE SkipSpace(_, _)
SkipSpace(s, k) == IF k <= Len(s) /\ s[k] \in WhiteSpace THEN SkipSpace(s, k + 1) ELSE k

RECURSIVE SentenceSplitFrom(_, _, _, _)
SentenceSplitFrom(s, k, cur, acc) ==
  IF k > Len(s) THEN Append(acc, cur)
  ELSE IF s[k] \in WhiteSpace /\ k > 1 /\ s[k - 1] \in SentenceEnd
       THEN SentenceSplitFrom(s, SkipSpace(s, k), <<>>, Append(acc, cur))
       ELSE SentenceSplitFrom(s, k + 1, Append(cur, s[k]), acc)
SentenceSplit(s) == SentenceSplitFrom(s, 1, <<>>, <<>>)

\* A loop that stops at every sentence boundary, abbreviation or not.
ContinuesTitle_Never(sentence) == FALSE

\* Does the loop of extract_title_from_text go on after this sentence?
ContinuesTitle(sentence) ==
  LET words == Split(RStrip(sentence, SentenceEnd))
      last_word == Lower(words[Len(words)])
  IN /\ words # <<>>
     /\ \/ last_word \in ABBREVIATIONS
        \/ Len(last_word) = 1 /\ IsAlpha(last_word[1])

RECURSIVE TitleParts(_, _, _)
TitleParts(sentences, k, title_parts) ==
  IF k > Len(sentences) THEN title_parts
  ELSE IF ContinuesTitle(sentences[k])
       THEN TitleParts(sentences, k + 1, Append(title_parts, sentences[k]))
       ELSE Append(title_parts, sentences[k])

extract_title_from_text(text) ==
  IF text = <<>> THEN <<>>
  ELSE LET full_title == Strip(Join(TitleParts(SentenceSplit(text), 1, <<>>), <<" ">>), WhiteSpace)
       IN Strip(RStrip(full_title, SentenceEnd), WhiteSpace)

\* sanitize_filename
IllegalChars == {"\\", "/", "*", "?", ":", "\"", "<", ">", "|"}
MaxFilenameLen == 100

RECURSIVE DropIllegal(_)
DropIllegal(s) == IF s = <<>> THEN <<>>
                  ELSE IF Head(s) \in IllegalChars THEN DropIllegal(Tail(s))
                  ELSE <<Head(s)>> \o DropIllegal(Tail(s))

RECURSIVE DotSpaces(_, _)
DotSpaces(s, k) ==
  IF k > Len(s) THEN <<>>
  ELSE IF s[k] \in WhiteSpace THEN <<".">> \o DotSpaces(s, SkipSpace(s, k))
  ELSE <<s[k]>> \o DotSpaces(s, k + 1)

sanitize_filename(name) ==
  LET stripped == Strip(DotSpaces(DropIllegal(name), 1), {"."})
  IN SubSeq(stripped, 1, IF Len(stripped) < MaxFilenameLen THEN Len(stripped) ELSE MaxFilenameLen)

\* f"{n:03}": zero-filled to width 3, the sign counted in the width.
Fmt03(n) ==
  LET digits == NatStr(IF n < 0 THEN 0 - n ELSE n)
      width  == IF n < 0 THEN 2 ELSE 3
      zeros  == [k \in 1..Max(0, width - Len(digits)) |-> "0"]
  IN (IF n < 0 THEN <<"-">> ELSE <<>>) \o zeros \o digits

HasTitle(chap) == "title" \in DOMAIN chap

\* ------------------------------------------------------- chapter sequencing
\* A gap label that ends at the next chapter's number instead of the one before.
NumberStr_OffByOne(chapters, k) ==
  IF k = Len(chapters) THEN Fmt03(chapters[k].number)
  ELSE IF chapters[k + 1].number > chapters[k].number + 1
       THEN Fmt03(chapters[k].number) \o <<"-">> \o Fmt03(chapters[k + 1].number)
       ELSE Fmt03(chapters[k].number)

\* number_str of the chapter at position k (process_chapter_gaps, 326-335).
NumberStr(chapters, k) ==
  IF k = Len(chapters) THEN Fmt03(chapters[k].number)
  ELSE IF chapters[k + 1].number > chapters[k].number + 1
       THEN Fmt03(chapters[k].number) \o <<"-">> \o Fmt03(chapters[k + 1].number - 1)
       ELSE Fmt03(chapters[k].number)

\* A sequencer that keeps the first chapter's detected start time.
GapStartTime_Unforced(chapters, k) == chapters[k].start_time

\* start_time of the chapter at position k (process_chapter_gaps, 324).
GapStartTime(chapters, k) == IF k = 1 THEN 0 ELSE chapters[k].start_time

process_chapter_gaps(chapters) ==
  [k \in 1..Len(chapters) |->
     [start_time |-> GapStartTime(chapters, k),
      title      |-> IF HasTitle(chapters[k]) THEN chapters[k].title ELSE <<>>,
      number_str |-> NumberStr(chapters, k)]]

\* chapters.sort(key=number): a stable insertion of x behind its equals.
RECURSIVE InsertByNumber(_, _)
InsertByNumber(sorted, x) ==
  IF sorted = <<>> THEN <<x>>
  ELSE IF sorted[Len(sorted)].number <= x.number THEN Append(sorted, x)
  ELSE Append(InsertByNumber(SubSeq(sorted, 1, Len(sorted) - 1), x), sorted[Len(sorted)])

RECURSIVE SortByNumber(_)
SortByNumber(chapters) ==
  IF chapters = <<>> THEN <<>>
  ELSE InsertByNumber(SortByNumber(SubSeq(chapters, 1, Len(chapters) - 1)),
                      chapters[Len(chapters)])

\* ------------------------------------------------------------ segmentation
PreRollMs == 500

\* int(seconds * 1000): truncation towards zero.
IntMs(ticks) == IF ticks >= 0 THEN ticks \div TicksPerMs
                ELSE 0 - ((0 - ticks) \div TicksPerMs)

\* A cut list without the terminal boundary at the total duration.
ChaptersToCut_NoEnd(processed_chapters, total_duration_sec) == processed_chapters

\* processed_chapters plus the terminal boundary (main, 482-483).
ChaptersToCut(processed_chapters, total_duration_sec) ==
  Append(processed_chapters,
         [number_str |-> <<"e","n","d">>, start_time |-> total_duration_sec])

\* A planner without the pre-roll trim.
StartMs_NoPreRoll(current_chapter) ==
  IF current_chapter.start_time = 0 THEN 0
  ELSE Max(0, IntMs(current_chapter.start_time))

StartMs(current_chapter) ==
  IF current_chapter.start_time = 0 THEN 0
  ELSE Max(0, IntMs(current_chapter.start_time) - PreRollMs)

EndMs(next_chapter) == IntMs(next_chapter.start_time)

Mp3 == <<".","m","p","3">>

OutputFilename(current_chapter, extract_title) ==
  IF extract_title
  THEN current_chapter.number_str \o <<".">>
         \o sanitize_filename(IF HasTitle(current_chapter) THEN current_chapter.title ELSE <<>>)
         \o Mp3
  ELSE current_chapter.number_str \o Mp3

\* One pass of the export loop of main (485-498) at index k (1-based).
Segment(chapters_to_cut, k, extract_title) ==
  [start_ms |-> StartMs(chapters_to_cut[k]),
   end_ms   |-> EndMs(chapters_to_cut[k + 1]),
   filename |-> OutputFilename(chapters_to_cut[k], extract_title)]

\* The cut plan of a whole run of the loop.
CutPlan(chapters, total_duration_sec, extract_title) ==
  LET chapters_to_cut == ChaptersToCut(process_chapter_gaps(chapters), total_duration_sec)
  IN [k \in 1..(Len(chapters_to_cut) - 1) |-> Segment(chapters_to_cut, k, extract_title)]

\* ---------------------------------------------------------- marker scanner
\* A block of the SRT file is its sequence of lines: index, time line, text.
ChapterWord == <<"c","h","a","p","t","e","r">>
Arrow == <<" ","-","-",">"," ">>

TextContent(lines) == Join(SubSeq(lines, 3, Len(lines)), <<" ">>)

\* lines[1].split(' --> ')[0]
StartField(time_line) ==
  IF Find(time_line, Arrow) = 0 THEN time_line
  ELSE SubSeq(time_line, 1, Find(time_line, Arrow) - 1)

\* The loop over the words of one cue (245-262): the index of the first
\* 'chapter' whose follower resolves, and the number; at = 0 when none does.
RECURSIVE ScanWords(_, _)
ScanWords(words, i) ==
  IF i > Len(words) THEN [at |-> 0, number |-> 0]
  ELSE IF Strip(Lower(words[i]), MarkerPunct) = ChapterWord /\ i + 1 <= Len(words)
       THEN LET next_word_cleaned == Strip(Lower(Strip(words[i + 1], WhiteSpace)), MarkerPunct)
                chapter_number == ResolveNumber(next_word_cleaned)
            IN IF chapter_number.ok THEN [at |-> i, number |-> chapter_number.val]
               ELSE ScanWords(words, i + 1)
       ELSE ScanWords(words, i + 1)

\* The title source text of a candidate found at word i of block b (268-273).
TitleText(blocks, block_index, words, i) ==
  LET title_text == Strip(Join(SubSeq(words, i + 2, Len(words)), <<" ">>), WhiteSpace)
  IN IF title_text = <<>> /\ block_index + 1 <= Len(blocks)
        /\ Len(blocks[block_index + 1]) >= 3
     THEN Strip(TextContent(blocks[block_index + 1]), WhiteSpace)
     ELSE title_text

\* What one block contributes: kind "none", "chapter" (with chapter_info) or
\* "raise" (the time line does not parse: the exception ends the scan).
ScanBlock(blocks, block_index, extract_title) ==
  LET lines == blocks[block_index]
      words == Split(TextContent(lines))
      hit   == ScanWords(words, 1)
      start_time == srt_time_to_seconds(StartField(lines[2]))
      NoChapter == [kind |-> "none", chapter_info |-> <<>>]
  IN IF Len(lines) < 3 THEN NoChapter
     ELSE IF Find(Lower(TextContent(lines)), ChapterWord) = 0 THEN NoChapter
     ELSE IF hit.at = 0 THEN NoChapter
     ELSE IF ~start_time.ok THEN [kind |-> "raise", chapter_info |-> <<>>]
     ELSE IF extract_title
          THEN [kind |-> "chapter",
                chapter_info |-> [number |-> hit.number, start_time |-> start_time.val,
                                  title |-> extract_title_from_text(
                                              TitleText(blocks, block_index, words, hit.at))]]
          ELSE [kind |-> "chapter",
                chapter_info |-> [number |-> hit.number, start_time |-> start_time.val]]

RECURSIVE ScanBlocks(_, _, _, _)
ScanBlocks(blocks, block_index, extract_title, chapters) ==
  IF block_index > Len(blocks) THEN chapters
  ELSE LET r == ScanBlock(blocks, block_index, extract_title)
       IN IF r.kind = "raise" THEN chapters
          ELSE IF r.kind = "chapter"
               THEN ScanBlocks(blocks, block_index + 1, extract_title, Append(chapters, r.chapter_info))
               ELSE ScanBlocks(blocks, block_index + 1, extract_title, chapters)

parse_srt_for_chapters(blocks, extract_title) ==
  SortByNumber(ScanBlocks(blocks, 1, extract_title, <<>>))

\* ------------------------------------------------------------------- state
VARIABLES
  extract_title,       \* config["extract_chapter_title"] of this run
  files,               \* per recording: the audio, .srt and .json beside it
  model,               \* TRUE once the WhisperModel is loaded (None before)
  queue,               \* audio_files_to_process
  idx,                 \* position of the for loop in queue
  pc,                  \* where main is
  total_duration_sec,  \* of the recording being processed
  chapters,            \* of the recording being processed
  plan,                \* the segments exported so far
  cache_read,          \* the .json of this recording was opened and parsed
  cache_event,         \* what the save step did: "none", "written", "kept", "failed"
  source,              \* where chapters came from: "embedded", "cache", "srt"
  attempted,           \* recordings the for loop has entered in this run
  broke,               \* the for loop was left by 'break'
  writer,              \* per recording: the completed plan of the run that wrote its .json
  fin, fout, fpc       \* input, output and phase of a function applied on its own

pipeVars == <<extract_title, files, model, queue, idx, pc, total_duration_sec,
              chapters, plan, cache_read, cache_event, source, attempted, broke, writer>>
fnVars == <<fin, fout, fpc>>
vars == <<pipeVars, fnVars>>

Recordings == 1..NumRecordings

NoFile == [exists |-> FALSE, content |-> <<>>]
FileOf(content) == [exists |-> TRUE, content |-> content]
NoWriter == [set |-> FALSE, plan |-> <<>>, extract_title |-> FALSE, source |-> "none"]

\* The pipeline at rest, for the specifications that apply one function.
PipeIdle ==
  /\ extract_title = FALSE /\ model = FALSE
  /\ files = [r \in Recordings |-> [audio |-> FALSE, srt |-> NoFile, json |-> NoFile]]
  /\ queue = <<>> /\ idx = 0 /\ pc = "idle" /\ total_duration_sec = 0
  /\ chapters = <<>> /\ plan = <<>> /\ cache_read = FALSE /\ cache_event = "none"
  /\ source = "none" /\ attempted = {} /\ broke = FALSE
  /\ writer = [r \in Recordings |-> NoWriter]

FnIdle == fin = <<>> /\ fout = <<>> /\ fpc = "idle"

\* ------------------------------------------------------------------ inputs
\* Time lines of the cues, by position in the file.
TimeLines == <<<<"0","0",":","0","0",":","0","0",",","3","0","0"," ","-","-",">"," ","0","0",":","0","0",":","0","9",",","0","0","0">>,
               <<"0","0",":","0","0",":","1","2",",","3","0","0"," ","-","-",">"," ","0","0",":","0","0",":","1","9",",","0","0","0">>,
               <<"0","0",":","0","1",":","4","0",",","0","0","0"," ","-","-",">"," ","0","0",":","0","1",":","4","9",",","0","0","0">>,
               <<"0","1",":","0","0",":","0","0",",","0","0","1"," ","-","-",">"," ","0","1",":","0","0",":","0","9",",","0","0","0">>,
               <<"0","1",":","3","0",":","0","0",",","0","0","0"," ","-","-",">"," ","0","1",":","3","0",":","0","9",",","0","0","0">>>>
BadTimeLine == <<"0","0",":","0","0",":","1","2"," ","-","-",">"," ","0","0",":","0","0",":","1","9">>

\* The text lines a cue can have; <<>> is a block without text (malformed).
TxtChapter1    == <<<<"C","h","a","p","t","e","r"," ","1">>>>
TxtChapterTwo  == <<<<"c","h","a","p","t","e","r"," ","t","w","o","."," ","T","h","e"," ","R","o","a","d","."," ","I","t"," ","w","a","s"," ","l","o","n","g",".">>>>
TxtChapter2    == <<<<"C","h","a","p","t","e","r"," "," ","2","!">>>>
TxtChapterV    == <<<<"C","H","A","P","T","E","R"," ","V",","," ","D","r","."," ","W","h","o","?"," ","Y","e","s",".">>>>
TxtProse       == <<<<"I","t"," ","w","a","s"," ","a"," ","d","a","r","k">>, <<"n","i","g","h","t",":"," ","c","o","l","d","."," ","N","o","t","h","i","n","g"," ","m","o","v","e","d",".">>>>
TxtRetry       == <<<<"t","h","e"," ","c","h","a","p","t","e","r"," ","f","o","o"," ","o","f"," ","C","h","a","p","t","e","r"," ","i","i",".">>>>
TxtChapter0    == <<<<"C","h","a","p","t","e","r"," ","0">>>>
TxtChapterNeg  == <<<<"c","h","a","p","t","e","r"," ","-","3",".">>>>
TxtChapterBang == <<<<"C","h","a","p","t","e","r"," ","!"," ","O","n","e">>>>
CueTexts == {TxtChapter1, TxtChapterTwo, TxtChapter2, TxtChapterV, TxtProse, TxtRetry,
             TxtChapter0, TxtChapterNeg, TxtChapterBang, <<>>}

\* A cue is its text lines and whether its time line is well formed.
CueKinds == [text : CueTexts, time_ok : {TRUE}] \cup {[text |-> TxtChapter1, time_ok |-> FALSE]}

BlockAt(kinds, k) ==
  <<IntStr(k), IF kinds[k].time_ok THEN TimeLines[k] ELSE BadTimeLine>> \o kinds[k].text

BlocksOf(kinds) == [k \in 1..Len(kinds) |-> BlockAt(kinds, k)]

SeqsUpTo(S, n) == UNION {[1..m -> S] : m \in 0..n}

Transcripts == {BlocksOf(kinds) : kinds \in SeqsUpTo(CueKinds, MaxCues)}

\* Start times (ticks) of planner inputs: 0 s, 0.3 s, 12.3 s, 100 s, 100.0005 s.
StartTimes == {0, 600, 24600, 200000, 200001}
\* Total durations (ticks) the media probe reports: 600 s and 3723.4565 s.
Durations == {1200000, 7446913}
\* Titles of planner inputs, by position.
Titles == <<<<"T","h","e"," ","R","o","a","d">>, <<"D","r","."," ","W","h","o">>, <<" ","W","h","a","t",":"," ","i","s"," "," ","t","h","i","s","?"," ">>, <<"F","o","u","r">>, <<"F","i","v","e">>>>

IsSortedByNumber(s) == \A k \in 1..(Len(s) - 1) : s[k].number <= s[k + 1].number

\* Chapter lists as the scan, the cache or the container metadata deliver
\* them: sorted by number, all with a title or all without.
UntitledLists ==
  {s \in UNION {[1..m -> [number : 1..MaxNumber, start_time : StartTimes]] : m \in 1..MaxChapters} :
     IsSortedByNumber(s)}
WithTitles(s) ==
  [k \in 1..Len(s) |-> [number |-> s[k].number, start_time |-> s[k].start_time, title |-> Titles[k]]]
ChapterLists == UntitledLists \cup {WithTitles(s) : s \in UntitledLists}

\* ------------------------------------------- the scanner applied on its own
ScanInit ==
  /\ PipeIdle
  /\ fin \in [blocks : Transcripts, extract_title : BOOLEAN]
  /\ fout = <<>> /\ fpc = "ready"

Scan ==
  /\ fpc = "ready"
  /\ fout' = parse_srt_for_chapters(fin.blocks, fin.extract_title)
  /\ fpc' = "done"
  /\ UNCHANGED <<fin, pipeVars>>

ScanNext == Scan
ScanSpec == ScanInit /\ [][ScanNext]_vars

\* ------------------------------------------- the planner applied on its own
PlanInit ==
  /\ PipeIdle
  /\ fin \in {i \in [chapters : ChapterLists, total_duration_sec : Durations, extract_title : BOOLEAN] :
                i.extract_title => HasTitle(i.chapters[1])}
  /\ fout = <<>> /\ fpc = "ready"

PlanCuts ==
  /\ fpc = "ready"
  /\ fout' = [processed_chapters |-> process_chapter_gaps(fin.chapters),
              plan |-> CutPlan(fin.chapters, fin.total_duration_sec, fin.extract_title)]
  /\ fpc' = "done"
  /\ UNCHANGED <<fin, pipeVars>>

PlanNext == PlanCuts
PlanSpec == PlanInit /\ [][PlanNext]_vars

\* ------------------------------------ the Roman parser applied on its own
\* The standard spelling of n, the input the parser is tried on.
RomanSteps == <<<<1000, <<"M">>>>, <<900, <<"C","M">>>>, <<500, <<"D">>>>, <<400, <<"C","D">>>>,
                <<100, <<"C">>>>, <<90, <<"X","C">>>>, <<50, <<"L">>>>, <<40, <<"X","L">>>>,
                <<10, <<"X">>>>, <<9, <<"I","X">>>>, <<5, <<"V">>>>, <<4, <<"I","V">>>>,
                <<1, <<"I">>>>>>
RECURSIVE RomanSpelling(_, _)
RomanSpelling(n, k) ==
  IF n = 0 THEN <<>>
  ELSE IF n >= RomanSteps[k][1] THEN RomanSteps[k][2] \o RomanSpelling(n - RomanSteps[k][1], k)
  ELSE RomanSpelling(n, k + 1)

RomanInit ==
  /\ PipeIdle
  /\ fin \in [n : 1..MaxRoman, lower : BOOLEAN]
  /\ fout = <<>> /\ fpc = "ready"

ParseRoman ==
  /\ fpc = "ready"
  /\ fout' = roman_to_int(IF fin.lower THEN Lower(RomanSpelling(fin.n, 1))
                          ELSE RomanSpelling(fin.n, 1))
  /\ fpc' = "done"
  /\ UNCHANGED <<fin, pipeVars>>

RomanNext == ParseRoman
RomanSpec == RomanInit /\ [][RomanNext]_vars

\* --------------------------------- the title extractor applied on its own
\* Sentence fragments a title source text is made of; continues says whether
\* the fragment ends in an abbreviation or an initial rather than a sentence.
Fragments ==
  <<[text |-> <<"M","r",".">>, continues |-> TRUE],
    [text |-> <<"S","m","i","t","h"," ","w","e","n","t"," ","h","o","m","e",".">>, continues |-> FALSE],
    [text |-> <<"H","e"," ","l","e","f","t",".">>, continues |-> FALSE],
    [text |-> <<"J",".">>, continues |-> TRUE],
    [text |-> <<"V","o","l","!">>, continues |-> TRUE],
    [text |-> <<"W","h","a","t","?">>, continues |-> FALSE],
    [text |-> <<"7",".">>, continues |-> FALSE]>>

\* The text made of the fragments parts[1], parts[2], ... up to parts[n].
TextOf(parts, n) == Join([k \in 1..n |-> Fragments[parts[k]].text], <<" ">>)

TitleInit ==
  /\ PipeIdle
  /\ fin \in UNION {[1..m -> DOMAIN Fragments] : m \in 1..MaxFragments}
  /\ fout = <<>> /\ fpc = "ready"

ExtractTitle ==
  /\ fpc = "ready"
  /\ fout' = extract_title_from_text(TextOf(fin, Len(fin)))
  /\ fpc' = "done"
  /\ UNCHANGED <<fin, pipeVars>>

TitleNext == ExtractTitle
TitleSpec == TitleInit /\ [][TitleNext]_vars

\* ---------------------------------------------------------- the batch run
\* What the collaborators deliver for recording r.  The media probe reports
\* the file's duration; the container of every second recording carries
\* chapter metadata (the second entry without a title tag).
DurationOf(r) == IF r % 2 = 1 THEN 7446913 ELSE 1200000
ProbeChapters(r) ==
  IF r % 2 = 0
  THEN <<[start_time |-> 0, tags |-> <<[key |-> "title", value |-> <<"I","n","t","r","o",":"," ","O","n","e">>]>>],
         [start_time |-> 200001, tags |-> <<>>]>>
  ELSE <<>>

\* extract_embedded_chapters on the probe's chapter entries.
extract_embedded_chapters(probe_chapters) ==
  [k \in 1..Len(probe_chapters) |->
     [number |-> k,
      start_time |-> probe_chapters[k].start_time,
      title |-> IF probe_chapters[k].tags # <<>> THEN probe_chapters[k].tags[1].value
                ELSE <<"C","h","a","p","t","e","r"," ">> \o IntStr(k)]]

\* The transcripts the speech recogniser can write for a recording.
SrtNoChapters == BlocksOf(<<[text |-> TxtProse, time_ok |-> TRUE]>>)
SrtGap == BlocksOf(<<[text |-> TxtChapter1, time_ok |-> TRUE],
                     [text |-> TxtChapterTwo, time_ok |-> TRUE],
                     [text |-> TxtChapterV, time_ok |-> TRUE]>>)
AsrTranscripts == {SrtNoChapters, SrtGap}

\* A dump that writes the start times in whole seconds.
json_dump_WholeSeconds(chaps) ==
  [k \in 1..Len(chaps) |->
     <<<<"number", chaps[k].number>>,
       <<"start_time", (chaps[k].start_time \div (1000 * TicksPerMs)) * (1000 * TicksPerMs)>>>>
       \o (IF HasTitle(chaps[k]) THEN <<<<"title", chaps[k].title>>>> ELSE <<>>)]

\* json.dump: every chapter becomes the list of its members, in key order.
json_dump(chaps) ==
  [k \in 1..Len(chaps) |->
     <<<<"number", chaps[k].number>>, <<"start_time", chaps[k].start_time>>>>
       \o (IF HasTitle(chaps[k]) THEN <<<<"title", chaps[k].title>>>> ELSE <<>>)]

HasMember(obj, key) == \E j \in DOMAIN obj : obj[j][1] = key
Member(obj, key) == obj[CHOOSE j \in DOMAIN obj : obj[j][1] = key][2]

\* json.load: every member list becomes a dict again.
json_load(content) ==
  [k \in 1..Len(content) |->
     IF HasMember(content[k], "title")
     THEN [number |-> Member(content[k], "number"),
           start_time |-> Member(content[k], "start_time"),
           title |-> Member(content[k], "title")]
     ELSE [number |-> Member(content[k], "number"),
           start_time |-> Member(content[k], "start_time")]]

\* A load that accepts a cache of any shape.
CacheMismatch_Never(loaded, policy) == FALSE

\* cache_has_title != extract_title (main, 412-413); an empty list never
\* equals the flag.
CacheMismatch(loaded, policy) ==
  IF loaded = <<>> THEN TRUE ELSE HasTitle(loaded[1]) # policy

\* A save step that does not look for an existing cache file.
ShouldSave_Overwrite(chaps, json_exists) == chaps # <<>>

\* The guard of the save step (main, 463).
ShouldSave(chaps, json_exists) == chaps # <<>> /\ ~json_exists

\* A loop that stops one file early.
LoopOver_Early(files_to_process, k) == k >= Len(files_to_process)

\* The for loop of main is over when the index has passed the last file.
LoopOver(files_to_process, k) == k > Len(files_to_process)

Current == queue[idx]

\* The audio files found by os.walk, in order.
RECURSIVE FilesToProcess(_, _)
FilesToProcess(fs, r) ==
  IF r > NumRecordings THEN <<>>
  ELSE (IF fs[r].audio THEN <<r>> ELSE <<>>) \o FilesToProcess(fs, r + 1)

ResetLocals ==
  /\ total_duration_sec' = 0 /\ chapters' = <<>> /\ plan' = <<>>
  /\ cache_read' = FALSE /\ cache_event' = "none" /\ source' = "none"

\* 'continue': on to the next file of the batch (its locals are assigned
\* afresh there).
Continue == idx' = idx + 1 /\ pc' = "file" /\ ResetLocals

Init ==
  /\ extract_title \in BOOLEAN /\ model = FALSE
  /\ files = [r \in Recordings |-> [audio |-> TRUE, srt |-> NoFile, json |-> NoFile]]
  /\ queue = <<>> /\ idx = 0 /\ pc = "scan_dir" /\ total_duration_sec = 0
  /\ chapters = <<>> /\ plan = <<>> /\ cache_read = FALSE /\ cache_event = "none"
  /\ source = "none" /\ attempted = {} /\ broke = FALSE
  /\ writer = [r \in Recordings |-> NoWriter]
  /\ FnIdle

\* main, 372-381: collect the audio files; return when there are none.
ScanDir ==
  /\ pc = "scan_dir"
  /\ queue' = FilesToProcess(files, 1)
  /\ idx' = 1
  /\ pc' = IF FilesToProcess(files, 1) = <<>> THEN "done" ELSE "file"
  /\ attempted' = {}
  /\ UNCHANGED <<extract_title, files, model, total_duration_sec, chapters, plan,
                 cache_read, cache_event, source, broke, writer, fnVars>>

\* main, 383-399: the duration cannot be obtained; skip the file.
ProbeFails ==
  /\ pc = "file" /\ ~LoopOver(queue, idx)
  /\ attempted' = attempted \cup {Current}
  /\ Continue
  /\ UNCHANGED <<extract_title, files, model, queue, broke, writer, fnVars>>

\* main, 383-405: duration obtained, then the embedded chapters are read
\* (an exception in the probe gives none).
ProbeFile ==
  /\ pc = "file" /\ ~LoopOver(queue, idx)
  /\ attempted' = attempted \cup {Current}
  /\ total_duration_sec' = DurationOf(Current)
  /\ \E probe_chapters \in {<<>>, ProbeChapters(Current)} :
       /\ chapters' = extract_embedded_chapters(probe_chapters)
       /\ source' = IF probe_chapters = <<>> THEN "none" ELSE "embedded"
  /\ plan' = <<>> /\ cache_read' = FALSE /\ cache_event' = "none"
  /\ pc' = "cache"
  /\ UNCHANGED <<extract_title, files, model, queue, idx, broke, writer, fnVars>>

\* The for loop has run out of files (535).
LoopEnd ==
  /\ pc = "file" /\ LoopOver(queue, idx)
  /\ pc' = "done"
  /\ UNCHANGED <<extract_title, files, model, queue, idx, total_duration_sec, chapters,
                 plan, cache_read, cache_event, source, attempted, broke, writer, fnVars>>

\* main, 407: there are embedded chapters, or there is no cache file.
CacheSkip ==
  /\ pc = "cache"
  /\ chapters # <<>> \/ ~files[Current].json.exists
  /\ pc' = "transcript"
  /\ UNCHANGED <<extract_title, files, model, queue, idx, total_duration_sec, chapters,
                 plan, cache_read, cache_event, source, attempted, broke, writer, fnVars>>

\* main, 407-417: the cache is read and used unless its shape disagrees with
\* the title policy.
CacheLoad ==
  /\ pc = "cache"
  /\ chapters = <<>> /\ files[Current].json.exists
  /\ LET loaded == json_load(files[Current].json.content)
     IN IF CacheMismatch(loaded, extract_title)
        THEN chapters' = <<>> /\ source' = "none"
        ELSE chapters' = loaded /\ source' = "cache"
  /\ cache_read' = TRUE
  /\ pc' = "transcript"
  /\ UNCHANGED <<extract_title, files, model, queue, idx, total_duration_sec,
                 plan, cache_event, attempted, broke, writer, fnVars>>

\* main, 418-420: reading the cache raises.
CacheLoadFails ==
  /\ pc = "cache"
  /\ chapters = <<>> /\ files[Current].json.exists
  /\ chapters' = <<>>
  /\ pc' = "transcript"
  /\ UNCHANGED <<extract_title, files, model, queue, idx, total_duration_sec,
                 plan, cache_read, cache_event, source, attempted, broke, writer, fnVars>>

\* main, 422: chapters are known already; nothing is transcribed or parsed.
TranscriptSkip ==
  /\ pc = "transcript"
  /\ chapters # <<>>
  /\ pc' = "save"
  /\ UNCHANGED <<extract_title, files, model, queue, idx, total_duration_sec, chapters,
                 plan, cache_read, cache_event, source, attempted, broke, writer, fnVars>>

\* main, 458-461: the .srt beside the recording is parsed.
ParseExistingSrt ==
  /\ pc = "transcript"
  /\ chapters = <<>> /\ files[Current].srt.exists
  /\ chapters' = parse_srt_for_chapters(files[Current].srt.content, extract_title)
  /\ source' = "srt"
  /\ pc' = "save"
  /\ UNCHANGED <<extract_title, files, model, queue, idx, total_duration_sec,
                 plan, cache_read, cache_event, attempted, broke, writer, fnVars>>

\* parse_srt_for_chapters, 233-235 and 283-287: reading the .srt raises; the
\* scan returns no chapters.
SrtReadFails ==
  /\ pc = "transcript"
  /\ chapters = <<>> /\ files[Current].srt.exists
  /\ chapters' = <<>>
  /\ source' = "srt"
  /\ pc' = "save"
  /\ UNCHANGED <<extract_title, files, model, queue, idx, total_duration_sec,
                 plan, cache_read, cache_event, attempted, broke, writer, fnVars>>

\* main, 425-436: the model cannot be prepared or loaded; 'break'.
ModelFails ==
  /\ pc = "transcript"
  /\ chapters = <<>> /\ ~files[Current].srt.exists
  /\ ~model
  /\ broke' = TRUE
  /\ pc' = "done"
  /\ UNCHANGED <<extract_title, files, model, queue, idx, total_duration_sec, chapters,
                 plan, cache_read, cache_event, source, attempted, writer, fnVars>>

\* main, 438-457: transcription raises; the file is skipped.
TranscribeFails ==
  /\ pc = "transcript"
  /\ chapters = <<>> /\ ~files[Current].srt.exists
  /\ model' = TRUE
  /\ Continue
  /\ UNCHANGED <<extract_title, files, queue, attempted, broke, writer, fnVars>>

\* main, 438-461: the recording is transcribed, the .srt written and parsed.
Transcribe ==
  /\ pc = "transcript"
  /\ chapters = <<>> /\ ~files[Current].srt.exists
  /\ model' = TRUE
  /\ \E blocks \in AsrTranscripts :
       /\ files' = [files EXCEPT ![Current].srt = FileOf(blocks)]
       /\ chapters' = parse_srt_for_chapters(blocks, extract_title)
  /\ source' = "srt"
  /\ pc' = "save"
  /\ UNCHANGED <<extract_title, queue, idx, total_duration_sec,
                 plan, cache_read, cache_event, attempted, broke, writer, fnVars>>

\* write_srt_file swallows its error (305-306): no .srt exists, opening it in
\* parse_srt_for_chapters raises and the scan returns no chapters.
SrtWriteFails ==
  /\ pc = "transcript"
  /\ chapters = <<>> /\ ~files[Current].srt.exists
  /\ model' = TRUE
  /\ chapters' = <<>>
  /\ source' = "srt"
  /\ pc' = "save"
  /\ UNCHANGED <<extract_title, files, queue, idx, total_duration_sec,
                 plan, cache_read, cache_event, attempted, broke, writer, fnVars>>

\* main, 463-467: the chapters are written to a new cache file.
SaveWrites ==
  /\ pc = "save"
  /\ ShouldSave(chapters, files[Current].json.exists)
  /\ files' = [files EXCEPT ![Current].json = FileOf(json_dump(chapters))]
  /\ cache_event' = "written"
  /\ pc' = "split"
  /\ UNCHANGED <<extract_title, model, queue, idx, total_duration_sec, chapters,
                 plan, cache_read, source, attempted, broke, writer, fnVars>>

\* main, 468-469: writing the cache raises.
SaveFails ==
  /\ pc = "save"
  /\ ShouldSave(chapters, files[Current].json.exists)
  /\ cache_event' = "failed"
  /\ pc' = "split"
  /\ UNCHANGED <<extract_title, files, model, queue, idx, total_duration_sec, chapters,
                 plan, cache_read, source, attempted, broke, writer, fnVars>>

\* main, 463: a cache file exists already; it is left alone.
SaveSkips ==
  /\ pc = "save"
  /\ chapters # <<>> /\ ~ShouldSave(chapters, files[Current].json.exists)
  /\ cache_event' = "kept"
  /\ pc' = "split"
  /\ UNCHANGED <<extract_title, files, model, queue, idx, total_duration_sec, chapters,
                 plan, cache_read, source, attempted, broke, writer, fnVars>>

\* main, 471-473: no chapters; the file is skipped.
NoChapters ==
  /\ pc = "save"
  /\ chapters = <<>>
  /\ Continue
  /\ UNCHANGED <<extract_title, files, model, queue, attempted, broke, writer, fnVars>>

\* main, 476-478 and 512-514: loading the audio raises; the file is skipped.
LoadAudioFails ==
  /\ pc = "split"
  /\ Continue
  /\ UNCHANGED <<extract_title, files, model, queue, attempted, broke, writer, fnVars>>

\* main, 478-483: the audio is loaded and the cut list prepared.
LoadAudio ==
  /\ pc = "split"
  /\ plan' = <<>>
  /\ pc' = "export"
  /\ UNCHANGED <<extract_title, files, model, queue, idx, total_duration_sec, chapters,
                 cache_read, cache_event, source, attempted, broke, writer, fnVars>>

CutList == ChaptersToCut(process_chapter_gaps(chapters), total_duration_sec)

\* main, 485-508: one pass of the export loop.
ExportSegment ==
  /\ pc = "export"
  /\ Len(plan) + 1 <= Len(CutList) - 1
  /\ plan' = Append(plan, Segment(CutList, Len(plan) + 1, extract_title))
  /\ UNCHANGED <<extract_title, files, model, queue, idx, pc, total_duration_sec, chapters,
                 cache_read, cache_event, source, attempted, broke, writer, fnVars>>

\* main, 508 and 512-514: an export raises; the file is skipped, not archived.
ExportFails ==
  /\ pc = "export"
  /\ Len(plan) + 1 <= Len(CutList) - 1
  /\ Continue
  /\ UNCHANGED <<extract_title, files, model, queue, attempted, broke, writer, fnVars>>

\* main, 510: the loop is over, every segment exported.
ExportDone ==
  /\ pc = "export"
  /\ ~(Len(plan) + 1 <= Len(CutList) - 1)
  /\ writer' = IF cache_event = "written"
               THEN [writer EXCEPT ![Current] =
                       [set |-> TRUE, plan |-> plan, extract_title |-> extract_title,
                        source |-> source]]
               ELSE writer
  /\ pc' = "archive"
  /\ UNCHANGED <<extract_title, files, model, queue, idx, total_duration_sec, chapters,
                 plan, cache_read, cache_event, source, attempted, broke, fnVars>>

\* main, 517-531: the recording, its .srt and its .json move to done_dir.
Archive ==
  /\ pc = "archive"
  /\ files' = [files EXCEPT ![Current] = [audio |-> FALSE, srt |-> NoFile, json |-> NoFile]]
  /\ writer' = [writer EXCEPT ![Current] = NoWriter]
  /\ Continue
  /\ UNCHANGED <<extract_title, model, queue, attempted, broke, fnVars>>

\* main, 532-533: the first move raises; everything stays in input_dir.
ArchiveFails ==
  /\ pc = "archive"
  /\ Continue
  /\ UNCHANGED <<extract_title, files, model, queue, attempted, broke, writer, fnVars>>

\* The program is started again on the same directories, the title policy
\* of config.json possibly edited in between.
Restart ==
  /\ pc = "done"
  /\ extract_title' \in BOOLEAN
  /\ model' = FALSE /\ broke' = FALSE
  /\ queue' = <<>> /\ idx' = 0 /\ attempted' = {}
  /\ pc' = "scan_dir"
  /\ ResetLocals
  /\ UNCHANGED <<files, writer, fnVars>>

Next ==
  \/ ScanDir \/ ProbeFails \/ ProbeFile \/ LoopEnd
  \/ CacheSkip \/ CacheLoadFails \/ CacheLoad
  \/ TranscriptSkip \/ ModelFails \/ TranscribeFails \/ SrtWriteFails \/ Transcribe
  \/ SrtReadFails \/ ParseExistingSrt
  \/ NoChapters \/ SaveFails \/ SaveSkips \/ SaveWrites
  \/ LoadAudioFails \/ LoadAudio \/ ExportFails \/ ExportDone \/ ExportSegment
  \/ ArchiveFails \/ Archive \/ Restart

Spec == Init /\ [][Next]_vars

\* ------------------------------------------------------------------ claims
Done == fpc = "done"

\* floor(seconds * 1000) of a time in ticks.
FloorMs(ticks) == ticks \div TicksPerMs

\* Fairness: main runs on; every step it has begun ends (the collaborators
\* return or raise).
FairSpec == Spec /\ WF_vars(Next)

\* C2: when the export loop has run to its end, the plan has as many
\* segments as there are chapters and its last segment ends at
\* floor(total_duration_seconds * 1000).
C2_SegmentCount ==
  pc = "archive" => /\ Len(plan) = Len(chapters)
                    /\ plan[Len(plan)].end_ms = FloorMs(total_duration_sec)

C2_Witness ==
  /\ pc = "archive" /\ source = "srt"
  /\ Len(chapters) = 3 /\ Len(plan) = 3 /\ plan[3].end_ms = 3723456

\* C6: a cache file that exists when the save step is reached is left as it
\* is by that step.
C6_WriteOnce ==
  [][(pc = "save" /\ files[Current].json.exists)
       => files'[Current].json = files[Current].json]_vars

\* The .json beside the current recording has titles where the policy wants
\* none, or the reverse.
ShapeDisagrees ==
  /\ files[Current].json.exists
  /\ LET content == files[Current].json.content
     IN (content # <<>> /\ HasMember(content[1], "title")) # extract_title

\* The save step found the mismatching cache, with chapters recomputed from
\* the transcript that differ from it, and kept the file.
C6_Witness ==
  /\ pc = "split" /\ cache_event = "kept"
  /\ cache_read /\ ShapeDisagrees /\ source = "srt"
  /\ chapters # json_load(files[Current].json.content)

\* C7: when the cache that was read disagrees in shape with the title policy,
\* the chapters that are segmented are those parsed from the transcript, not
\* the cached records.
C7_MismatchRecomputes ==
  (pc \in {"split", "export", "archive"} /\ cache_read /\ ShapeDisagrees)
    => /\ source = "srt"
       /\ chapters = parse_srt_for_chapters(files[Current].srt.content, extract_title)
       /\ chapters # json_load(files[Current].json.content)

C7_Witness ==
  /\ pc = "export" /\ cache_read /\ ShapeDisagrees
  /\ ~extract_title /\ HasMember(files[Current].json.content[1], "title")
  /\ source = "srt" /\ Len(plan) = Len(chapters)

\* C8: a run that loads the cache written by an earlier run, under the same
\* title policy, builds the cut plan that earlier run built.
C8_Idempotent ==
  (/\ pc = "archive" /\ source = "cache"
   /\ writer[Current].set /\ writer[Current].extract_title = extract_title)
    => plan = writer[Current].plan

C8_Witness ==
  /\ pc = "archive" /\ source = "cache"
  /\ writer[Current].set /\ writer[Current].source = "srt"
  /\ writer[Current].extract_title = extract_title /\ extract_title
  /\ Len(plan) = 3 /\ plan = writer[Current].plan

C1_NoGapsNoOverlaps ==
  Done => /\ fout.plan[1].start_ms = 0
          /\ \A k \in 1..(Len(fout.plan) - 1) : fout.plan[k + 1].start_ms = fout.plan[k].end_ms

\* C1 as amended: the first segment starts at 0 and every later segment starts
\* 500 ms before the end of the one before it, but never before 0; there is
\* no gap, and consecutive segments overlap by the pre-roll.
C1_PreRollChain ==
  Done => /\ fout.plan[1].start_ms = 0
          /\ \A k \in 1..(Len(fout.plan) - 1) :
               fout.plan[k + 1].start_ms = Max(0, fout.plan[k].end_ms - 500)

C1_Witness ==
  /\ Done /\ Len(fout.plan) >= 3
  /\ fout.plan[2].start_ms = fout.plan[1].end_ms - 500 /\ fout.plan[2].start_ms > 0
  /\ fout.plan[2].end_ms = 300 /\ fout.plan[3].start_ms = 0

\* C3: the chapter list the scan delivers has strictly increasing numbers
\* (a repeated number is kept once).
C3_StrictlyIncreasing ==
  Done => \A k \in 1..(Len(fout) - 1) : fout[k].number < fout[k + 1].number

\* C4: the first segment starts at 0 ms whatever the detected time of the
\* first chapter, whose start time process_chapter_gaps sets to 0 leaving
\* the others alone; every other segment starts at
\* max(0, floor(start_seconds * 1000) - 500), never below 0.
C4_StartOffsets ==
  Done => /\ fout.plan[1].start_ms = 0
          /\ fout.processed_chapters[1].start_time = 0
          /\ \A k \in 2..Len(fin.chapters) :
               /\ fout.processed_chapters[k].start_time = fin.chapters[k].start_time
               /\ fout.plan[k].start_ms = Max(0, FloorMs(fin.chapters[k].start_time) - 500)
               /\ fout.plan[k].start_ms >= 0

C4_Witness ==
  /\ Done /\ Len(fin.chapters) = 3
  /\ fin.chapters[1].start_time = 12300 * TicksPerMs /\ fout.plan[1].start_ms = 0
  /\ fin.chapters[2].start_time = 100000 * TicksPerMs /\ fout.plan[2].start_ms = 99500
  /\ fin.chapters[3].start_time = 300 * TicksPerMs /\ fout.plan[3].start_ms = 0

\* The number n (0..999) written with exactly three digits.
Pad3(n) == <<DigitChars[((n \div 100) % 10) + 1], DigitChars[((n \div 10) % 10) + 1],
             DigitChars[(n % 10) + 1]>>

\* C5: the last chapter is labelled with its own number in 3 digits; any
\* other chapter with '<own>-<next - 1>' when the next number exceeds its own
\* by more than 1, and with its own number otherwise.
C5_Labels ==
  Done => \A k \in 1..Len(fin.chapters) :
            LET own == fin.chapters[k].number
            IN fout.processed_chapters[k].number_str =
                 IF k = Len(fin.chapters) THEN Pad3(own)
                 ELSE IF fin.chapters[k + 1].number > own + 1
                      THEN Pad3(own) \o <<"-">> \o Pad3(fin.chapters[k + 1].number - 1)
                      ELSE Pad3(own)

C5_Witness ==
  /\ Done
  /\ [k \in 1..Len(fin.chapters) |-> fin.chapters[k].number] = <<1, 2, 5>>
  /\ [k \in 1..Len(fin.chapters) |-> fout.processed_chapters[k].number_str]
       = <<<<"0","0","1">>, <<"0","0","2","-","0","0","4">>, <<"0","0","5">>>>

\* C10: roman_to_int of the standard spelling of n, in upper or lower case,
\* is n.
C10_RomanRoundTrip == Done => fout.ok /\ fout.val = fin.n

C10_Witness == Done /\ fin.n = 1994 /\ fin.lower /\ fout = Some(1994)

\* The example of C11: "Mr. Smith went home. He left."
MrSmith == <<1, 2, 3>>

\* C11 as stated: the title of "Mr. Smith went home. He left." is
\* "Mr. Smith went home. He left".
C11_ExampleAsStated ==
  (Done /\ fin = MrSmith) => fout = <<"M","r","."," ","S","m","i","t","h"," ","w","e","n","t"," ","h","o","m","e","."," ","H","e"," ","l","e","f","t">>

\* The first fragment that ends a sentence, or the last one when none does.
StopAt(parts) ==
  IF \E k \in 1..Len(parts) : ~Fragments[parts[k]].continues
  THEN CHOOSE k \in 1..Len(parts) :
         /\ ~Fragments[parts[k]].continues
         /\ \A j \in 1..(k - 1) : Fragments[parts[j]].continues
  ELSE Len(parts)

\* C11 as amended: the title is the text up to the first fragment that does
\* not end in an abbreviation or a single letter, without its trailing
\* sentence-ending punctuation; the title of "Mr. Smith went home. He left."
\* is "Mr. Smith went home".
C11_StopsAtFirstSentenceEnd ==
  Done => /\ fout = RStrip(TextOf(fin, StopAt(fin)), SentenceEnd)
          /\ (fin = MrSmith => fout = <<"M","r","."," ","S","m","i","t","h"," ","w","e","n","t"," ","h","o","m","e">>)

C11_Witness == Done /\ fin = MrSmith /\ fout = <<"M","r","."," ","S","m","i","t","h"," ","w","e","n","t"," ","h","o","m","e">>

\* The first word of a cue that is 'chapter' and has a follower; 0 if none.
FirstMarker(words) ==
  LET hits == {i \in 1..(Len(words) - 1) : Strip(Lower(words[i]), MarkerPunct) = ChapterWord}
  IN IF hits = {} THEN 0 ELSE CHOOSE i \in hits : \A j \in hits : i <= j

\* The follower of the cue's first 'chapter' is no number of any grammar.
FirstMarkerUnresolved(lines) ==
  LET words == Split(TextContent(lines))
      i == FirstMarker(words)
  IN /\ Len(lines) >= 3
     /\ i # 0
     /\ ~ResolveNumber(Strip(Lower(words[i + 1]), MarkerPunct)).ok

\* The scan returned a candidate that starts with the cue of these lines.
YieldsCandidate(lines, chaps) ==
  /\ srt_time_to_seconds(StartField(lines[2])).ok
  /\ \E c \in 1..Len(chaps) :
       chaps[c].start_time = srt_time_to_seconds(StartField(lines[2])).val

\* C12: a cue whose first 'chapter' is followed by a token that resolves to
\* no number yields no candidate, whatever follows in the same cue.
C12_NoRetry ==
  Done => \A k \in 1..Len(fin.blocks) :
            FirstMarkerUnresolved(fin.blocks[k]) => ~YieldsCandidate(fin.blocks[k], fout)

\* C13: every candidate of the scan has a chapter number of at least 1.
C13_PositiveNumbers ==
  Done => \A c \in 1..Len(fout) : fout[c].number >= 1

====
